---------------------------- MODULE Spec2Model ----------------------------
(***************************************************************************)
(* WorkflowEngine: the Processor (src/src/lib.rs, WorkflowEngineProcessor) *)
(* and the Runner (src/src/lib.rs, run).                                   *)
(*                                                                         *)
(* Text is a sequence of characters.  A character is a one-character       *)
(* string, or the name "U+XXXX" of a character outside ASCII.  A JSON      *)
(* document is the text serde_json writes, character by character.         *)
(***************************************************************************)
EXTENDS Integers, Sequences, FiniteSets, TLC

VARIABLES
  \* Processors held by a caller of the library
  procs,        \* the Processor of each instance
  constructed,  \* the verbose flag each instance was constructed with
  calls,        \* how many process calls each instance has served
  lastResult,   \* the latest process call: instance, input, returned value
  lastStats,    \* the value get_stats returned, if it was the latest call
  \* one invocation of run
  pc,           \* the step run is at
  args,         \* run's parameters verbose, input, output
  fs,           \* the files at the paths run may touch
  stdout,       \* what has been printed to standard output
  processor,    \* run's local Processor
  input_data,   \* run's local input_data
  result,       \* run's local result
  output_json,  \* run's local output_json
  stats,        \* run's local stats
  returned,     \* what run returned
  trace         \* the steps run has taken, in order

apiVars == <<procs, constructed, calls, lastResult, lastStats>>
runVars == <<pc, args, fs, stdout, processor, input_data, result,
             output_json, stats, returned, trace>>
vars == <<procs, constructed, calls, lastResult, lastStats,
          pc, args, fs, stdout, processor, input_data, result,
          output_json, stats, returned, trace>>

\* ------------------------------------------------------------------ bounds
\* Longest input text drawn from InputChars (the text "hello" is added).
MaxLen == 1
\* Cap on processed_count of one Processor (usize in the code).
MaxCount == 10
\* Clock readings are 0 .. MaxTime seconds after the epoch.
MaxTime == 1
\* Cap on the process calls made on two instances together.
MaxPairCalls == 4

\* -------------------------------------------------------------- characters
Digits == <<"0", "1", "2", "3", "4", "5", "6", "7", "8", "9">>
Upper == <<"A", "B", "C", "D", "E", "F", "G", "H", "I", "J", "K", "L", "M",
           "N", "O", "P", "Q", "R", "S", "T", "U", "V", "W", "X", "Y", "Z">>
Lower == <<"a", "b", "c", "d", "e", "f", "g", "h", "i", "j", "k", "l", "m",
           "n", "o", "p", "q", "r", "s", "t", "u", "v", "w", "x", "y", "z">>

IndexOf(seq, c) == CHOOSE i \in 1..Len(seq) : seq[i] = c
Range(seq) == {seq[i] : i \in 1..Len(seq)}

\* The characters outside ASCII that the input texts use.
Beyond == {"U+00E9", "U+65E5", "U+1F600"}
Punctuation == {"\t", "\n", "\r", " ", "\"", "#", "+", ",", "-", ".", ":",
                "\\", "_", "{", "}"}
Chars == Range(Digits) \cup Range(Upper) \cup Range(Lower) \cup Punctuation
           \cup Beyond

\* The Unicode scalar value of each character.
CodePointOf ==
  [c \in Chars |->
     CASE c \in Range(Digits) -> 47 + IndexOf(Digits, c)
       [] c \in Range(Upper)  -> 64 + IndexOf(Upper, c)
       [] c \in Range(Lower)  -> 96 + IndexOf(Lower, c)
       [] c = "\t" -> 9
       [] c = "\n" -> 10
       [] c = "\r" -> 13
       [] c = " "  -> 32
       [] c = "\"" -> 34
       [] c = "#"  -> 35
       [] c = "+"  -> 43
       [] c = ","  -> 44
       [] c = "-"  -> 45
       [] c = "."  -> 46
       [] c = ":"  -> 58
       [] c = "\\" -> 92
       [] c = "_"  -> 95
       [] c = "{"  -> 123
       [] c = "}"  -> 125
       [] c = "U+00E9"  -> 233
       [] c = "U+65E5"  -> 26085
       [] c = "U+1F600" -> 128512]

CodePoint(c) == CodePointOf[c]

\* char::len_utf8: the bytes of one character in a Rust str.
Utf8Len(c) ==
  IF CodePoint(c) < 128 THEN 1
  ELSE IF CodePoint(c) < 2048 THEN 2
  ELSE IF CodePoint(c) < 65536 THEN 3
  ELSE 4

RECURSIVE StrLen(_)
\* A count of characters, not of bytes: what str::len is not.
StrLenChars(s) == Len(s)
\* str::len: the length of a text in bytes.
StrLen(s) == IF s = <<>> THEN 0 ELSE Utf8Len(Head(s)) + StrLen(Tail(s))

\* String ordering of Rust (byte-wise; on UTF-8 it is code point order).
RECURSIVE StrLess(_, _)
StrLess(a, b) ==
  IF b = <<>> THEN FALSE
  ELSE IF a = <<>> THEN TRUE
  ELSE IF CodePoint(Head(a)) # CodePoint(Head(b))
       THEN CodePoint(Head(a)) < CodePoint(Head(b))
  ELSE StrLess(Tail(a), Tail(b))

\* Display for an unsigned integer: its decimal digits, no leading zero.
RECURSIVE ToDecimal(_)
ToDecimal(n) ==
  IF n < 10 THEN <<Digits[n + 1]>>
  ELSE ToDecimal(n \div 10) \o <<Digits[(n % 10) + 1]>>


\* ------------------------------------------------------ serde_json::Value
\* A Value is a tagged record; an object holds its members as a sequence of
\* [k, v] in key order (serde_json's Map is a BTreeMap).
VNull == [kind |-> "null", b |-> FALSE, n |-> 0, s |-> <<>>, o |-> <<>>]
VBool(b) == [kind |-> "bool", b |-> b, n |-> 0, s |-> <<>>, o |-> <<>>]
VNum(n) == [kind |-> "num", b |-> FALSE, n |-> n, s |-> <<>>, o |-> <<>>]
VStr(s) == [kind |-> "str", b |-> FALSE, n |-> 0, s |-> s, o |-> <<>>]
VObj(o) == [kind |-> "obj", b |-> FALSE, n |-> 0, s |-> <<>>, o |-> o]

\* Map::insert: replaces the value of a key already present, else inserts the
\* member at its place in key order.
MapInsert(o, k, v) ==
  IF \E i \in 1..Len(o) : o[i].k = k
  THEN [i \in 1..Len(o) |-> IF o[i].k = k THEN [k |-> k, v |-> v] ELSE o[i]]
  ELSE LET below == Cardinality({i \in 1..Len(o) : StrLess(o[i].k, k)})
       IN  SubSeq(o, 1, below) \o <<[k |-> k, v |-> v]>>
             \o SubSeq(o, below + 1, Len(o))

MapHas(o, k) == \E i \in 1..Len(o) : o[i].k = k
MapGet(o, k) == o[CHOOSE i \in 1..Len(o) : o[i].k = k].v

\* Option<Value>
None == [some |-> FALSE, v |-> VNull]
Some(v) == [some |-> TRUE, v |-> v]

\* ------------------------------------------------------------ text literals
KeyLength == <<"l", "e", "n", "g", "t", "h">>
KeyProcessedAt == <<"p", "r", "o", "c", "e", "s", "s", "e", "d", "_", "a", "t">>
KeyItemNumber == <<"i", "t", "e", "m", "_", "n", "u", "m", "b", "e", "r">>
KeySuccess == <<"s", "u", "c", "c", "e", "s", "s">>
KeyMessage == <<"m", "e", "s", "s", "a", "g", "e">>
KeyData == <<"d", "a", "t", "a">>
KeyProcessedCount == <<"p", "r", "o", "c", "e", "s", "s", "e", "d", "_", "c", "o", "u",
    "n", "t">>
KeyVerbose == <<"v", "e", "r", "b", "o", "s", "e">>
MessagePrefix ==
  <<"S", "u", "c", "c", "e", "s", "s", "f", "u", "l", "l", "y", " ",
    "p", "r", "o", "c", "e", "s", "s", "e", "d", " ", "i", "t", "e",
    "m", " ", "#">>
DefaultData ==
  <<"S", "a", "m", "p", "l", "e", " ", "d", "a", "t", "a", " ", "f",
    "o", "r", " ", "p", "r", "o", "c", "e", "s", "s", "i", "n", "g">>
Hello == <<"h", "e", "l", "l", "o">>

\* ------------------------------------------------------------------ clock
Times == 0..MaxTime

\* Two decimal digits.
Pad2(n) == IF n < 10 THEN <<"0">> \o ToDecimal(n) ELSE ToDecimal(n)

\* DateTime<Utc>::to_rfc3339 of the instant t seconds after the epoch
\* (t < 60).
ToRfc3339(t) ==
  <<"1", "9", "7", "0", "-", "0", "1", "-", "0", "1", "T", "0", "0",
    ":", "0", "0", ":">>
    \o Pad2(t) \o <<"+", "0", "0", ":", "0", "0">>

\* -------------------------------------------------------------- Processor
\* WorkflowEngineProcessor::new
New(verbose) == [verbose |-> verbose, processed_count |-> 0]

\* format!("Successfully processed item #{}", n)
FormatMessage(n) == MessagePrefix \o ToDecimal(n)

\* json!({"length": .., "processed_at": .., "item_number": ..})
JsonData(len, at, item) ==
  VObj(MapInsert(MapInsert(MapInsert(<<>>, KeyLength, VNum(len)),
                           KeyProcessedAt, VStr(at)),
                 KeyItemNumber, VNum(item)))

\* process with the counter read before the increment.
ProcessStale(self, data, now) ==
  [self |-> [self EXCEPT !.processed_count = @ + 1],
   ret  |-> [ok |-> TRUE,
             val |-> [success |-> TRUE,
                      message |-> FormatMessage(self.processed_count),
                      data |-> Some(JsonData(StrLen(data), ToRfc3339(now),
                                             self.processed_count))]]]

\* process that counts only non-empty inputs.
ProcessSkipEmpty(self, data, now) ==
  LET count == IF data = <<>> THEN self.processed_count
               ELSE self.processed_count + 1
  IN  [self |-> [self EXCEPT !.processed_count = count],
       ret  |-> [ok |-> TRUE,
                 val |-> [success |-> TRUE,
                          message |-> FormatMessage(count),
                          data |-> Some(JsonData(StrLen(data), ToRfc3339(now),
                                                 count))]]]

\* process that reports failure on the empty input.
ProcessRejectEmpty(self, data, now) ==
  LET count == self.processed_count + 1
  IN  [self |-> [self EXCEPT !.processed_count = count],
       ret  |-> [ok |-> TRUE,
                 val |-> [success |-> data # <<>>,
                          message |-> FormatMessage(count),
                          data |-> IF data = <<>> THEN None
                                   ELSE Some(JsonData(StrLen(data),
                                                      ToRfc3339(now), count))]]]

\* WorkflowEngineProcessor::process(&mut self, data) at the clock reading
\* now: the Processor afterwards (self) and the value returned (ret).
Process(self, data, now) ==
  LET count == self.processed_count + 1
  IN  [self |-> [self EXCEPT !.processed_count = count],
       ret  |-> [ok |-> TRUE,
                 val |-> [success |-> TRUE,
                          message |-> FormatMessage(count),
                          data |-> Some(JsonData(StrLen(data), ToRfc3339(now),
                                                 count))]]]

\* get_stats that reports verbose as off.
GetStatsQuiet(self) ==
  VObj(MapInsert(MapInsert(<<>>, KeyProcessedCount, VNum(self.processed_count)),
                 KeyVerbose, VBool(FALSE)))

\* WorkflowEngineProcessor::get_stats(&self)
GetStats(self) ==
  VObj(MapInsert(MapInsert(<<>>, KeyProcessedCount, VNum(self.processed_count)),
                 KeyVerbose, VBool(self.verbose)))


\* ------------------------------------------------------------ input texts
InputChars == {"h", "U+00E9", "U+65E5", "U+1F600"}

RECURSIVE TextsUpTo(_)
TextsUpTo(n) ==
  IF n = 0 THEN {<<>>}
  ELSE LET shorter == TextsUpTo(n - 1)
       IN  shorter \cup {Append(t, c) : t \in shorter, c \in InputChars}

Inputs == TextsUpTo(MaxLen) \cup {Hello}

\* The inputs of the two-instance specification.
PairInputs == {<<>>, Hello}

\* ------------------------------------------- the library used by a caller
Instances == {"p", "q"}

NoResult == [called |-> FALSE, inst |-> "p", input |-> <<>>,
             ret |-> [ok |-> TRUE,
                      val |-> [success |-> FALSE, message |-> <<>>,
                               data |-> None]]]
NoStats == [called |-> FALSE, inst |-> "p", v |-> VNull]

\* run is not in progress.
RunIdle ==
  /\ pc = "idle"
  /\ args = [verbose |-> FALSE, input |-> <<>>, output |-> <<>>]
  /\ fs = <<>>
  /\ stdout = <<>>
  /\ processor = New(FALSE)
  /\ input_data = <<>>
  /\ result = [success |-> FALSE, message |-> <<>>, data |-> None]
  /\ output_json = <<>>
  /\ stats = VNull
  /\ returned = "running"
  /\ trace = <<>>

\* Each instance constructed by new(verbose), no call made yet.
Init ==
  /\ constructed \in [Instances -> BOOLEAN]
  /\ procs = [i \in Instances |-> New(constructed[i])]
  /\ calls = [i \in Instances |-> 0]
  /\ lastResult = NoResult
  /\ lastStats = NoStats
  /\ RunIdle

\* A process call that bumps a counter shared by all instances.
ProcessCallShared(i, data, now) ==
  /\ procs[i].processed_count < MaxCount
  /\ LET r == Process(procs[i], data, now)
     IN  /\ procs' = [j \in Instances |->
                        [procs[j] EXCEPT !.processed_count =
                                           r.self.processed_count]]
         /\ lastResult' = [called |-> TRUE, inst |-> i, input |-> data,
                           ret |-> r.ret]
  /\ calls' = [calls EXCEPT ![i] = @ + 1]
  /\ lastStats' = NoStats
  /\ UNCHANGED <<constructed, pc, args, fs, stdout, processor, input_data,
                 result, output_json, stats, returned, trace>>

\* processor.process(data) on instance i, the clock reading now.
ProcessCall(i, data, now) ==
  /\ procs[i].processed_count < MaxCount
  /\ LET r == Process(procs[i], data, now)
     IN  /\ procs' = [procs EXCEPT ![i] = r.self]
         /\ lastResult' = [called |-> TRUE, inst |-> i, input |-> data,
                           ret |-> r.ret]
  /\ calls' = [calls EXCEPT ![i] = @ + 1]
  /\ lastStats' = NoStats
  /\ UNCHANGED <<constructed, pc, args, fs, stdout, processor, input_data,
                 result, output_json, stats, returned, trace>>

\* processor.get_stats() on instance i.
GetStatsCall(i) ==
  /\ lastStats' = [called |-> TRUE, inst |-> i, v |-> GetStats(procs[i])]
  /\ UNCHANGED <<procs, constructed, calls, lastResult, pc, args, fs, stdout,
                 processor, input_data, result, output_json, stats, returned,
                 trace>>

\* One Processor, instance "p", used by its owner.
Next ==
  \/ \E data \in Inputs, now \in Times : ProcessCall("p", data, now)
  \/ GetStatsCall("p")

Spec == Init /\ [][Next]_vars

TotalCalls == calls["p"] + calls["q"]

\* Two Processors, their calls interleaved in any order.
NextPair ==
  \/ \E i \in Instances, data \in PairInputs, now \in Times :
       TotalCalls < MaxPairCalls /\ ProcessCall(i, data, now)
  \/ \E i \in Instances : GetStatsCall(i)

PairSpec == Init /\ [][NextPair]_vars


\* ------------------------------------------- serde_json::to_string_pretty
DigitSet == Range(Digits)
Whitespace == {" ", "\n", "\t", "\r"}

\* Indentation of a nesting level: two spaces each.
Indent(level) == [i \in 1..(2 * level) |-> " "]

\* The escape serde_json writes for a character of a string.
EscapeChar(c) ==
  CASE c = "\"" -> <<"\\", "\"">>
    [] c = "\\" -> <<"\\", "\\">>
    [] c = "\n" -> <<"\\", "n">>
    [] c = "\t" -> <<"\\", "t">>
    [] c = "\r" -> <<"\\", "r">>
    [] OTHER    -> <<c>>

RECURSIVE Escape(_)
Escape(s) == IF s = <<>> THEN <<>> ELSE EscapeChar(Head(s)) \o Escape(Tail(s))

SerString(s) == <<"\"">> \o Escape(s) \o <<"\"">>

RECURSIVE SerValue(_, _)
RECURSIVE SerMembers(_, _, _)

\* An object's members from the i-th on, one per line at nesting level.
SerMembers(o, i, level) ==
  IF i > Len(o) THEN <<>>
  ELSE (IF i = 1 THEN <<"\n">> ELSE <<",", "\n">>)
         \o Indent(level) \o SerString(o[i].k) \o <<":", " ">>
         \o SerValue(o[i].v, level) \o SerMembers(o, i + 1, level)

\* A sequence of members written as a pretty-printed object.
SerObject(o, level) ==
  IF o = <<>> THEN <<"{", "}">>
  ELSE <<"{">> \o SerMembers(o, 1, level + 1) \o <<"\n">> \o Indent(level)
         \o <<"}">>

\* A Value written by the pretty formatter at a nesting level.
SerValue(v, level) ==
  CASE v.kind = "null" -> <<"n", "u", "l", "l">>
    [] v.kind = "bool" -> IF v.b THEN <<"t", "r", "u", "e">>
                          ELSE <<"f", "a", "l", "s", "e">>
    [] v.kind = "num"  -> ToDecimal(v.n)
    [] v.kind = "str"  -> SerString(v.s)
    [] v.kind = "obj"  -> SerObject(v.o, level)

\* The members #[derive(Serialize)] writes for a ProcessResult, in the order
\* the struct declares its fields; None is written as null.
ResultMembers(r) ==
  <<[k |-> KeySuccess, v |-> VBool(r.success)],
    [k |-> KeyMessage, v |-> VStr(r.message)],
    [k |-> KeyData, v |-> IF r.data.some THEN r.data.v ELSE VNull]>>

\* to_string_pretty that leaves the data member out.
ToStringPrettyNoData(r) == SerObject(SubSeq(ResultMembers(r), 1, 2), 0)

\* serde_json::to_string_pretty(&result)
ToStringPretty(r) == SerObject(ResultMembers(r), 0)

\* ------------------------------------------------- serde_json::from_str
Parsed(v, pos) == [ok |-> TRUE, val |-> v, pos |-> pos]
Fail == [ok |-> FALSE, val |-> VNull, pos |-> 0]

RECURSIVE SkipWs(_, _)
SkipWs(s, i) ==
  IF i <= Len(s) /\ s[i] \in Whitespace THEN SkipWs(s, i + 1) ELSE i

\* Whether text s holds the literal lit at position i.
HasLiteral(s, i, lit) ==
  /\ i + Len(lit) - 1 <= Len(s)
  /\ SubSeq(s, i, i + Len(lit) - 1) = lit

\* The rest of a string after its opening quote: unescapes up to the
\* closing quote; a raw control character is an error.
RECURSIVE ParseStringBody(_, _, _)
ParseStringBody(s, i, acc) ==
  IF i > Len(s) THEN Fail
  ELSE IF s[i] = "\"" THEN Parsed(VStr(acc), i + 1)
  ELSE IF s[i] = "\\"
       THEN IF i + 1 > Len(s) THEN Fail
            ELSE CASE s[i + 1] \in {"\"", "\\"} ->
                        ParseStringBody(s, i + 2, Append(acc, s[i + 1]))
                   [] s[i + 1] = "n" ->
                        ParseStringBody(s, i + 2, Append(acc, "\n"))
                   [] s[i + 1] = "t" ->
                        ParseStringBody(s, i + 2, Append(acc, "\t"))
                   [] s[i + 1] = "r" ->
                        ParseStringBody(s, i + 2, Append(acc, "\r"))
                   [] OTHER -> Fail
  ELSE IF s[i] \in {"\n", "\t", "\r"} THEN Fail
  ELSE ParseStringBody(s, i + 1, Append(acc, s[i]))

\* The digits of an unsigned integer from position i on.
RECURSIVE ParseDigits(_, _, _)
ParseDigits(s, i, acc) ==
  IF i <= Len(s) /\ s[i] \in DigitSet
  THEN ParseDigits(s, i + 1, 10 * acc + (IndexOf(Digits, s[i]) - 1))
  ELSE Parsed(VNum(acc), i)

\* An unsigned integer; a leading zero stands alone.
ParseNumber(s, i) ==
  IF s[i] = "0"
  THEN IF i + 1 <= Len(s) /\ s[i + 1] \in DigitSet THEN Fail
       ELSE Parsed(VNum(0), i + 1)
  ELSE ParseDigits(s, i, 0)

RECURSIVE ParseValue(_, _)
RECURSIVE ParseMembers(_, _, _)

\* The members of an object from the key at position i on, up to "}".
ParseMembers(s, i, acc) ==
  IF i > Len(s) \/ s[i] # "\"" THEN Fail
  ELSE LET key == ParseStringBody(s, i + 1, <<>>)
       IN  IF ~key.ok THEN Fail
           ELSE LET colon == SkipWs(s, key.pos)
                IN  IF colon > Len(s) \/ s[colon] # ":" THEN Fail
                    ELSE LET val == ParseValue(s, colon + 1)
                         IN  IF ~val.ok THEN Fail
                             ELSE LET next == SkipWs(s, val.pos)
                                      members ==
                                        MapInsert(acc, key.val.s, val.val)
                                  IN  IF next > Len(s) THEN Fail
                                      ELSE IF s[next] = "}"
                                           THEN Parsed(VObj(members), next + 1)
                                      ELSE IF s[next] = ","
                                           THEN ParseMembers(
                                                  s, SkipWs(s, next + 1),
                                                  members)
                                      ELSE Fail

\* A JSON value after optional whitespace.
ParseValue(s, i0) ==
  LET i == SkipWs(s, i0)
  IN  IF i > Len(s) THEN Fail
      ELSE CASE s[i] = "{" ->
                  LET j == SkipWs(s, i + 1)
                  IN  IF j <= Len(s) /\ s[j] = "}"
                      THEN Parsed(VObj(<<>>), j + 1)
                      ELSE ParseMembers(s, j, <<>>)
             [] s[i] = "\"" -> ParseStringBody(s, i + 1, <<>>)
             [] s[i] \in DigitSet -> ParseNumber(s, i)
             [] HasLiteral(s, i, <<"t", "r", "u", "e">>) ->
                  Parsed(VBool(TRUE), i + 4)
             [] HasLiteral(s, i, <<"f", "a", "l", "s", "e">>) ->
                  Parsed(VBool(FALSE), i + 5)
             [] HasLiteral(s, i, <<"n", "u", "l", "l">>) ->
                  Parsed(VNull, i + 4)
             [] OTHER -> Fail

NoProcessResult == [success |-> FALSE, message |-> <<>>, data |-> None]

\* serde_json::from_str::<ProcessResult>: one JSON object and nothing after
\* it, with a boolean success and a string message; data absent or null is
\* None, any other value v is Some(v).
FromStr(s) ==
  LET p == ParseValue(s, 1)
  IN  IF /\ p.ok
         /\ SkipWs(s, p.pos) > Len(s)
         /\ p.val.kind = "obj"
         /\ MapHas(p.val.o, KeySuccess)
         /\ MapGet(p.val.o, KeySuccess).kind = "bool"
         /\ MapHas(p.val.o, KeyMessage)
         /\ MapGet(p.val.o, KeyMessage).kind = "str"
      THEN [ok |-> TRUE,
            val |-> [success |-> MapGet(p.val.o, KeySuccess).b,
                     message |-> MapGet(p.val.o, KeyMessage).s,
                     data |-> IF /\ MapHas(p.val.o, KeyData)
                                 /\ MapGet(p.val.o, KeyData).kind # "null"
                              THEN Some(MapGet(p.val.o, KeyData))
                              ELSE None]]
      ELSE [ok |-> FALSE, val |-> NoProcessResult]

\* --------------------------------------------------------- the file system
Paths == {"a", "b"}

\* Option<String>
NoPath == [some |-> FALSE, path |-> "a"]
SomePath(path) == [some |-> TRUE, path |-> path]

FileTexts == {<<>>, Hello, <<"U+00E9", "U+65E5">>}

\* What can be at a path: nothing (in a directory that allows creating the
\* file or not), a file that may not be read, a file whose bytes are not
\* UTF-8, or a text file that may or may not be written.
Files ==
  {[exists |-> FALSE, readable |-> FALSE, writable |-> w, utf8 |-> FALSE,
    text |-> <<>>] : w \in BOOLEAN}
  \cup {[exists |-> TRUE, readable |-> FALSE, writable |-> TRUE,
         utf8 |-> TRUE, text |-> Hello]}
  \cup {[exists |-> TRUE, readable |-> TRUE, writable |-> TRUE,
         utf8 |-> FALSE, text |-> <<>>]}
  \cup {[exists |-> TRUE, readable |-> TRUE, writable |-> w, utf8 |-> TRUE,
         text |-> t] : w \in BOOLEAN, t \in FileTexts}

\* fs::read_to_string succeeds on a file that exists, may be read and holds
\* UTF-8.
CanRead(f) == f.exists /\ f.readable /\ f.utf8

\* The file fs::write leaves when it succeeds: created or truncated, then
\* holding exactly the contents.
Written(f, contents) ==
  [exists |-> TRUE, readable |-> IF f.exists THEN f.readable ELSE TRUE,
   writable |-> TRUE, utf8 |-> TRUE, text |-> contents]

\* ------------------------------------------------------------------- run
Steps == <<"read_input", "process", "serialize", "write_output",
           "read_stats">>

\* An entry of trace: a step of run and whether it succeeded.
Did(step, ok) == [step |-> step, ok |-> ok]

\* The library is not in use by another caller.
ApiIdle ==
  /\ constructed = [i \in Instances |-> FALSE]
  /\ procs = [i \in Instances |-> New(FALSE)]
  /\ calls = [i \in Instances |-> 0]
  /\ lastResult = NoResult
  /\ lastStats = NoStats

\* run(verbose, input, output) is entered.
InitRun ==
  /\ ApiIdle
  /\ pc = "start"
  /\ args \in [verbose : BOOLEAN,
               input : {NoPath} \cup {SomePath(x) : x \in Paths},
               output : {NoPath} \cup {SomePath(x) : x \in Paths}]
  /\ fs \in [Paths -> Files]
  /\ stdout = <<>>
  /\ processor = New(FALSE)
  /\ input_data = <<>>
  /\ result = NoProcessResult
  /\ output_json = <<>>
  /\ stats = VNull
  /\ returned = "running"
  /\ trace = <<>>

\* Logger set up; let mut processor = WorkflowEngineProcessor::new(verbose)
RunStart ==
  /\ pc = "start"
  /\ processor' = New(args.verbose)
  /\ pc' = "read_input"
  /\ UNCHANGED <<args, fs, stdout, input_data, result, output_json, stats,
                 returned, trace>>
  /\ UNCHANGED apiVars

\* Some(path): fs::read_to_string(&path) succeeds.
RunReadFile ==
  /\ pc = "read_input"
  /\ args.input.some
  /\ CanRead(fs[args.input.path])
  /\ input_data' = fs[args.input.path].text
  /\ pc' = "process"
  /\ trace' = Append(trace, Did("read_input", TRUE))
  /\ UNCHANGED <<args, fs, stdout, processor, result, output_json, stats,
                 returned>>
  /\ UNCHANGED apiVars

\* A failed read that is taken for an empty input.
RunReadFailDefault ==
  /\ pc = "read_input"
  /\ args.input.some
  /\ ~CanRead(fs[args.input.path])
  /\ input_data' = <<>>
  /\ pc' = "process"
  /\ trace' = Append(trace, Did("read_input", TRUE))
  /\ UNCHANGED <<args, fs, stdout, processor, result, output_json, stats,
                 returned>>
  /\ UNCHANGED apiVars

\* Some(path): fs::read_to_string(&path)? returns the I/O error.
RunReadFail ==
  /\ pc = "read_input"
  /\ args.input.some
  /\ ~CanRead(fs[args.input.path])
  /\ pc' = "returned"
  /\ returned' = "Err(io)"
  /\ trace' = Append(trace, Did("read_input", FALSE))
  /\ UNCHANGED <<args, fs, stdout, processor, input_data, result,
                 output_json, stats>>
  /\ UNCHANGED apiVars

\* None: "Sample data for processing".to_string()
RunDefaultInput ==
  /\ pc = "read_input"
  /\ ~args.input.some
  /\ input_data' = DefaultData
  /\ pc' = "process"
  /\ trace' = Append(trace, Did("read_input", TRUE))
  /\ UNCHANGED <<args, fs, stdout, processor, result, output_json, stats,
                 returned>>
  /\ UNCHANGED apiVars

\* let result = processor.process(&input_data)?
RunProcess ==
  /\ pc = "process"
  /\ \E now \in Times :
       LET r == Process(processor, input_data, now)
       IN  /\ processor' = r.self
           /\ IF r.ret.ok
              THEN /\ result' = r.ret.val
                   /\ pc' = "serialize"
                   /\ UNCHANGED returned
              ELSE /\ pc' = "returned"
                   /\ returned' = "Err(process)"
                   /\ UNCHANGED result
           /\ trace' = Append(trace, Did("process", r.ret.ok))
  /\ UNCHANGED <<args, fs, stdout, input_data, output_json, stats>>
  /\ UNCHANGED apiVars

\* let output_json = serde_json::to_string_pretty(&result)?
RunSerialize ==
  /\ pc = "serialize"
  /\ output_json' = ToStringPretty(result)
  /\ pc' = "write_output"
  /\ trace' = Append(trace, Did("serialize", TRUE))
  /\ UNCHANGED <<args, fs, stdout, processor, input_data, result, stats,
                 returned>>
  /\ UNCHANGED apiVars

\* Some(path): fs::write(&path, &output_json) succeeds.
RunWriteFile ==
  /\ pc = "write_output"
  /\ args.output.some
  /\ fs[args.output.path].writable
  /\ fs' = [fs EXCEPT ![args.output.path] = Written(@, output_json)]
  /\ pc' = "read_stats"
  /\ trace' = Append(trace, Did("write_output", TRUE))
  /\ UNCHANGED <<args, stdout, processor, input_data, result, output_json,
                 stats, returned>>
  /\ UNCHANGED apiVars

\* A failed write that is passed over: run goes on to the stats.
RunWriteFailIgnored ==
  /\ pc = "write_output"
  /\ args.output.some
  /\ ~fs[args.output.path].writable
  /\ pc' = "read_stats"
  /\ trace' = Append(trace, Did("write_output", FALSE))
  /\ UNCHANGED <<args, fs, stdout, processor, input_data, result,
                 output_json, stats, returned>>
  /\ UNCHANGED apiVars

\* Some(path): fs::write(&path, &output_json)? returns the I/O error.  The
\* file cannot be opened for writing and is left as it was, or it is opened
\* (created or truncated) and the write fails part of the way.
RunWriteFail ==
  /\ pc = "write_output"
  /\ args.output.some
  /\ \/ /\ ~fs[args.output.path].writable
        /\ UNCHANGED fs
     \/ /\ fs[args.output.path].writable
        /\ \E k \in {0, Len(output_json) \div 2} :
             fs' = [fs EXCEPT ![args.output.path] =
                      Written(@, SubSeq(output_json, 1, k))]
  /\ pc' = "returned"
  /\ returned' = "Err(io)"
  /\ trace' = Append(trace, Did("write_output", FALSE))
  /\ UNCHANGED <<args, stdout, processor, input_data, result, output_json,
                 stats>>
  /\ UNCHANGED apiVars

\* A println! issued twice.
RunPrintTwice ==
  /\ pc = "write_output"
  /\ ~args.output.some
  /\ stdout' = stdout \o <<output_json \o <<"\n">>, output_json \o <<"\n">>>>
  /\ pc' = "read_stats"
  /\ trace' = Append(trace, Did("write_output", TRUE))
  /\ UNCHANGED <<args, fs, processor, input_data, result, output_json,
                 stats, returned>>
  /\ UNCHANGED apiVars

\* None: println!("{}", output_json)
RunPrint ==
  /\ pc = "write_output"
  /\ ~args.output.some
  /\ stdout' = Append(stdout, output_json \o <<"\n">>)
  /\ pc' = "read_stats"
  /\ trace' = Append(trace, Did("write_output", TRUE))
  /\ UNCHANGED <<args, fs, processor, input_data, result, output_json,
                 stats, returned>>
  /\ UNCHANGED apiVars

\* let stats = processor.get_stats(); Ok(())
RunStats ==
  /\ pc = "read_stats"
  /\ stats' = GetStats(processor)
  /\ pc' = "returned"
  /\ returned' = "Ok"
  /\ trace' = Append(trace, Did("read_stats", TRUE))
  /\ UNCHANGED <<args, fs, stdout, processor, input_data, result,
                 output_json>>
  /\ UNCHANGED apiVars

NextRun ==
  \/ RunStart
  \/ RunReadFile
  \/ RunReadFail
  \/ RunDefaultInput
  \/ RunProcess
  \/ RunSerialize
  \/ RunWriteFile
  \/ RunWriteFail
  \/ RunPrint
  \/ RunStats

RunSpec == InitRun /\ [][NextRun]_vars



\* ================================================================ claims
\* Fields of the values the operations return.
ItemNumber(r) == MapGet(r.data.v.o, KeyItemNumber)
LengthOf(r) == MapGet(r.data.v.o, KeyLength)
StatsCount(v) == MapGet(v.o, KeyProcessedCount)
StatsVerbose(v) == MapGet(v.o, KeyVerbose)
Count(i) == procs[i].processed_count

\* C1: every process call, on the empty input or any other, raises
\* processed_count by exactly 1, so after N calls the counter and the count
\* get_stats reports are N; no step lowers the counter.
C1_CountIsCalls ==
  /\ [](\A i \in Instances :
          /\ Count(i) = calls[i]
          /\ (lastStats.called /\ lastStats.inst = i)
               => StatsCount(lastStats.v) = VNum(calls[i]))
  /\ [][\A i \in Instances :
          /\ Count(i)' >= Count(i)
          /\ Count(i)' - Count(i) = calls'[i] - calls[i]
          /\ calls'[i] - calls[i] \in {0, 1}]_vars

C1_Witness ==
  /\ calls["p"] = 3
  /\ lastResult.called /\ lastResult.input = <<>>
  /\ lastStats.called /\ StatsCount(lastStats.v) = VNum(3)

\* C2: the result of the Nth process call carries item_number = N, the
\* counter after the increment, and the message "Successfully processed
\* item #N" with the same N in decimal; a get_stats right after the call
\* reports the same N.
C2_ItemNumberIsNewCount ==
  lastResult.called =>
    LET r == lastResult.ret.val
        n == calls[lastResult.inst]
        k == Len(MessagePrefix)
    IN  /\ r.data.some
        /\ ItemNumber(r) = VNum(n)
        /\ n = Count(lastResult.inst)
        /\ Len(r.message) > k
        /\ SubSeq(r.message, 1, k) = MessagePrefix
        /\ r.message[k + 1] # "0"
        /\ ParseDigits(r.message, k + 1, 0)
             = Parsed(VNum(n), Len(r.message) + 1)
        /\ (lastStats.called /\ lastStats.inst = lastResult.inst)
             => StatsCount(lastStats.v) = ItemNumber(r)

C2_Witness ==
  /\ lastResult.called
  /\ calls["p"] = 10
  /\ ItemNumber(lastResult.ret.val) = VNum(10)
  /\ lastStats.called

\* C3: process returns Ok with success = true and a data object, for the
\* call just made and for every input it could be given in the current
\* Processor state.
C3_ProcessTotal ==
  /\ lastResult.called =>
       /\ lastResult.ret.ok
       /\ lastResult.ret.val.success
       /\ lastResult.ret.val.data.some
       /\ lastResult.ret.val.data.v.kind = "obj"
  /\ \A data \in Inputs, now \in Times :
       LET r == Process(procs["p"], data, now).ret
       IN  r.ok /\ r.val.success /\ r.val.data.some

C3_Witness ==
  /\ lastResult.called
  /\ lastResult.input = <<>>
  /\ procs["p"].verbose
  /\ calls["p"] = 2
  /\ lastResult.ret.val.success

\* The bytes of a text, counted per width class of its characters.
ByteCount(s) ==
  Len(s) + Cardinality({i \in 1..Len(s) : CodePointOf[s[i]] >= 128})
         + Cardinality({i \in 1..Len(s) : CodePointOf[s[i]] >= 2048})
         + Cardinality({i \in 1..Len(s) : CodePointOf[s[i]] >= 65536})

\* C4: data.length of a result is the byte count of the input, whatever the
\* counter and the verbose flag are; the empty text gives 0, "hello" gives 5.
C4_LengthIsByteCount ==
  lastResult.called =>
    /\ lastResult.ret.val.data.some
    /\ LengthOf(lastResult.ret.val) = VNum(ByteCount(lastResult.input))
    /\ lastResult.input = <<>> => LengthOf(lastResult.ret.val) = VNum(0)
    /\ lastResult.input = Hello => LengthOf(lastResult.ret.val) = VNum(5)

C4_Witness ==
  /\ lastResult.called
  /\ lastResult.input = <<"U+65E5">>
  /\ LengthOf(lastResult.ret.val) = VNum(3)
  /\ procs["p"].verbose
  /\ calls["p"] = 4

\* C5: get_stats returns exactly {processed_count, verbose} of the
\* Processor as it is, and a get_stats step changes no Processor; before
\* any process call it reports 0 and the flag given to new; verbose always
\* is the flag given to new.
C5_GetStatsReadOnly ==
  /\ [](\A i \in Instances :
          /\ procs[i].verbose = constructed[i]
          /\ (lastStats.called /\ lastStats.inst = i) =>
               /\ lastStats.v.kind = "obj"
               /\ Len(lastStats.v.o) = 2
               /\ StatsCount(lastStats.v) = VNum(Count(i))
               /\ StatsVerbose(lastStats.v) = VBool(constructed[i])
               /\ calls[i] = 0 => StatsCount(lastStats.v) = VNum(0))
  /\ [][lastStats'.called => (procs' = procs /\ calls' = calls)]_vars

C5_Witness ==
  /\ lastStats.called
  /\ lastStats.inst = "p"
  /\ calls["p"] = 0
  /\ constructed["p"]
  /\ StatsVerbose(lastStats.v) = VBool(TRUE)

\* C10: a call on one instance leaves the other instance's Processor as it
\* was, and the item_number of a process call is the number of process
\* calls its own instance has served, this one included.
C10_InstancesIndependent ==
  /\ [](\A i \in Instances : procs[i].verbose = constructed[i])
  /\ [][\A i \in Instances :
          /\ calls'[i] = calls[i] => procs'[i] = procs[i]
          /\ calls'[i] # calls[i] =>
               /\ calls'[i] = calls[i] + 1
               /\ lastResult'.called /\ lastResult'.inst = i
               /\ ItemNumber(lastResult'.ret.val) = VNum(calls'[i])
               /\ Count(i)' = calls'[i]]_vars

C10_Witness ==
  /\ calls["p"] = 2
  /\ calls["q"] = 1
  /\ lastResult.called /\ lastResult.inst = "q"
  /\ ItemNumber(lastResult.ret.val) = VNum(1)
  /\ Count("p") = 2

\* ---------------------------------------------------------- claims on run
Finished == pc = "returned"
StepsDone == [i \in 1..Len(trace) |-> trace[i].step]
TimesDone(step) == Cardinality({i \in 1..Len(trace) : trace[i].step = step})
InputUnreadable == args.input.some /\ ~CanRead(fs[args.input.path])

\* C6: with an input path that cannot be read, run returns the I/O error,
\* no step changes a file or prints, and process is not called: the counter
\* stays 0.
C6_UnreadableInput ==
  /\ [](InputUnreadable =>
          /\ stdout = <<>>
          /\ processor.processed_count = 0
          /\ TimesDone("process") = 0
          /\ TimesDone("write_output") = 0
          /\ Finished => returned = "Err(io)")
  /\ [][InputUnreadable => (fs' = fs /\ stdout' = stdout)]_vars

C6_Witness ==
  /\ Finished
  /\ returned = "Err(io)"
  /\ args.input.some /\ ~fs[args.input.path].exists
  /\ args.output.some /\ args.output.path # args.input.path
  /\ fs[args.output.path].exists /\ fs[args.output.path].writable
  /\ fs[args.output.path].text = Hello
  /\ trace = <<Did("read_input", FALSE)>>

NoPaths == ~args.input.some /\ ~args.output.some

\* C7: with no input path and no output path, run takes the default text,
\* calls process once, prints one record to standard output that reads back
\* with success = true and item_number = 1, changes no file and returns Ok.
C7_DefaultRun ==
  /\ []((NoPaths /\ Finished) =>
          /\ returned = "Ok"
          /\ input_data = DefaultData
          /\ TimesDone("process") = 1
          /\ Len(stdout) = 1
          /\ stdout[1] = output_json \o <<"\n">>
          /\ FromStr(stdout[1]).ok
          /\ FromStr(stdout[1]).val.success
          /\ FromStr(stdout[1]).val.data.some
          /\ ItemNumber(FromStr(stdout[1]).val) = VNum(1))
  /\ [][NoPaths => fs' = fs]_vars

C7_Witness ==
  /\ NoPaths
  /\ ~args.verbose
  /\ Finished
  /\ returned = "Ok"
  /\ Len(stdout) = 1

\* C8: when run has an output path and returns Ok, the file holds exactly
\* the serialized result, nothing was printed, and the file's text
\* deserializes to the ProcessResult that process returned.
C8_FileRoundTrip ==
  (Finished /\ returned = "Ok" /\ args.output.some) =>
    LET f == fs[args.output.path]
    IN  /\ f.exists /\ f.utf8
        /\ f.text = output_json
        /\ stdout = <<>>
        /\ result.success /\ result.data.some
        /\ FromStr(f.text).ok
        /\ FromStr(f.text).val = result

C8_Witness ==
  /\ Finished
  /\ returned = "Ok"
  /\ args.output.some
  /\ args.input.some /\ args.input.path = args.output.path
  /\ input_data = <<"U+00E9", "U+65E5">>
  /\ LengthOf(result) = VNum(5)
  /\ FromStr(fs[args.output.path].text).val = result

\* C9: the steps of run are taken in the order read input, process,
\* serialize, write output, read stats, each at most once; a step that fails
\* is the last step, run then returns its error, and run returns Ok only
\* after all five steps succeeded.
C9_StepsInOrder ==
  /\ StepsDone = SubSeq(Steps, 1, Len(trace))
  /\ \A i \in 1..Len(trace) :
       ~trace[i].ok => (i = Len(trace) /\ Finished /\ returned # "Ok")
  /\ ~Finished => returned = "running"
  /\ Finished =>
       \/ returned = "Ok" /\ StepsDone = Steps
       \/ /\ returned = "Err(io)"
          /\ ~trace[Len(trace)].ok
          /\ trace[Len(trace)].step \in {"read_input", "write_output"}
          /\ stats = VNull

C9_Witness ==
  /\ Finished
  /\ returned = "Err(io)"
  /\ Len(trace) = 4
  /\ trace[4] = Did("write_output", FALSE)
  /\ stats = VNull

=============================================================================
